---------------------------- MODULE Spec2Model ----------------------------
(***************************************************************************)
(* Model of the webhook receivers of renansilva42/webhook_lastlink:        *)
(*   src/app.py               generic receiver (POST /webhook,             *)
(*                            POST /webhook/<custom_path>)                 *)
(*   src/webhook_lastlink.py  payment-platform receiver (POST              *)
(*                            /webhook/lastlink and its three sub-paths)   *)
(*                                                                         *)
(* Text that the code inspects character by character (the Authorization   *)
(* header, the Content-Type header, XML text content) is a sequence of     *)
(* one-character strings.  Python values that the code builds (dict, list, *)
(* str, None) are records tagged by the field "t".                         *)
(***************************************************************************)
EXTENDS Integers, Sequences, FiniteSets, TLC

VARIABLES
    WEBHOOK_TOKEN,      \* app.py:35, read from the environment at import
    WEBHOOK_SECRET,     \* app.py:34, read from the environment at import
    json_strict,        \* installed Flask answers 415 to get_json() on a non-JSON mimetype
    pc,                 \* position of the request being handled
    req,                \* the request being handled
    events,             \* steps of webhook_receiver executed for req, in order
    verified,           \* outcome of the verify_signature call made for req
    branch,             \* content-type branch taken by webhook_receiver for req
    request_data,       \* decoded payload of req
    logged,             \* arguments of the log_request_details / print_received_data call
    exc,                \* exception caught by the handler's except clause
    resp,               \* response returned to the caller
    xml_string,         \* input of parse_xml_to_dict
    xml_result,         \* what parse_xml_to_dict returned or raised
    xpc                 \* position of the parse_xml_to_dict call

vars == <<WEBHOOK_TOKEN, WEBHOOK_SECRET, json_strict, pc, req, events, verified,
          branch, request_data, logged, exc, resp, xml_string, xml_result, xpc>>

reqVars == <<WEBHOOK_TOKEN, WEBHOOK_SECRET, json_strict, pc, req, events, verified,
             branch, request_data, logged, exc, resp>>

xmlVars == <<xml_string, xml_result, xpc>>

---------------------------------------------------------------------------
(* Bounds of the model.                                                    *)

\* XML documents with every kind of element (tag, attributes, text): at most
\* this many elements.
MaxNodes == 2

\* XML documents of attribute-free elements: at most this many elements.
MaxPlainNodes == 4

---------------------------------------------------------------------------
(* Python values.                                                          *)

None == [t |-> "None"]

PyStr(s) == [t |-> "str", s |-> s]

PyDict(d) == [t |-> "dict", d |-> d]

PyList(items) == [t |-> "list", items |-> items]

\* The empty mapping {}.
EmptyMap == [k \in {} |-> None]

\* d with d[k] = v added or replaced.
MapSet(d, k, v) == [x \in DOMAIN d \cup {k} |-> IF x = k THEN v ELSE d[x]]

\* A return value or a raised exception.
Return(v) == [raised |-> FALSE, value |-> v]

Raise(e) == [raised |-> TRUE, exception |-> e]

---------------------------------------------------------------------------
(* Strings as character sequences.                                         *)

Whitespace == {" ", "\t", "\n", "\r"}

\* p occurs in s starting at position i.
OccursAt(p, s, i) ==
    /\ i + Len(p) - 1 <= Len(s)
    /\ \A k \in 1..Len(p) : s[i + k - 1] = p[k]

\* Python `p in s`.
Contains(s, p) == \E i \in 1..(Len(s) + 1) : OccursAt(p, s, i)

RECURSIVE ReplaceFrom(_, _, _)
\* s[i..] with every non-overlapping occurrence of old removed, scanning left to right.
ReplaceFrom(s, old, i) ==
    IF i > Len(s) THEN <<>>
    ELSE IF OccursAt(old, s, i) THEN ReplaceFrom(s, old, i + Len(old))
    ELSE <<s[i]>> \o ReplaceFrom(s, old, i + 1)

\* Python s.replace(old, '') for a non-empty old.
Replace(s, old) == ReplaceFrom(s, old, 1)

RECURSIVE LStrip(_)
LStrip(s) == IF s # <<>> /\ Head(s) \in Whitespace THEN LStrip(Tail(s)) ELSE s

RECURSIVE RStrip(_)
RStrip(s) ==
    IF s # <<>> /\ s[Len(s)] \in Whitespace THEN RStrip(SubSeq(s, 1, Len(s) - 1)) ELSE s

\* Python s.strip().
Strip(s) == RStrip(LStrip(s))

---------------------------------------------------------------------------
(* XML documents.  ET.fromstring turns XML text into an element tree; an   *)
(* element is its tag, its attributes, the text before its first child     *)
(* and its children in document order.  A document is given by what        *)
(* ET.fromstring makes of it.                                              *)

Tags == {"a", "b"}

\* element.attrib: attribute name -> value.
Attribs == {EmptyMap, [k \in {"id"} |-> <<"5">>]}

\* element.text: absent, whitespace only, text with surrounding whitespace.
Texts == {<<>>, <<" ">>, <<" ", "t">>}

FullLabels == [tag : Tags, attrib : Attribs, text : Texts]

PlainLabels == [tag : Tags, attrib : {EmptyMap}, text : {<<>>, <<" ", "t">>}]

Element(l, children) ==
    [tag |-> l.tag, attrib |-> l.attrib, text |-> l.text, children |-> children]

RECURSIVE TreesOfSize(_, _), ForestsOfSize(_, _)
\* The elements over labels L that have exactly n elements in all.
TreesOfSize(L, n) ==
    IF n < 1 THEN {}
    ELSE LET forests == ForestsOfSize(L, n - 1)
         IN  {Element(l, f) : l \in L, f \in forests}

\* The sequences of elements over labels L that have exactly n elements in all.
ForestsOfSize(L, n) ==
    IF n = 0 THEN {<<>>}
    ELSE UNION { LET first == TreesOfSize(L, k)
                     rest == ForestsOfSize(L, n - k)
                 IN  {<<e>> \o f : e \in first, f \in rest} : k \in 1..n }

TreesUpTo(L, n) == UNION {TreesOfSize(L, k) : k \in 1..n}

\* XML text that ET.fromstring parses to the element tree root.
XmlDocument(root) == [kind |-> "xml", root |-> root]

\* Well-formed XML nested deeper than the interpreter's recursion limit,
\* e.g. "<a>" * 1500 + "</a>" * 1500.
DeepXmlDocument == [kind |-> "xml_deep"]

\* Text that is neither well-formed XML nor JSON.
PlainText(raw) == [kind |-> "text", raw |-> raw]

EmptyBody == [kind |-> "empty"]

\* The well-formed documents of at most n elements, or of at most m
\* attribute-free elements.
WellFormedDocuments(n, m) ==
    {XmlDocument(e) : e \in TreesUpTo(FullLabels, n) \cup TreesUpTo(PlainLabels, m)}

\* The texts parse_xml_to_dict is called on.
XmlInputs(n, m) ==
    WellFormedDocuments(n, m) \cup {DeepXmlDocument, PlainText("<a><b></a>"), EmptyBody}

\* The tree ET.fromstring builds for DeepXmlDocument.
DeepElement == [tag |-> "a", deep |-> TRUE]

ParseError == [type |-> "ParseError", str |-> <<"mismatched tag">>]

RecursionError ==
    [type |-> "RecursionError", str |-> <<"maximum recursion depth exceeded">>]

\* ET.fromstring(xml_string) (app.py:87).
ET_fromstring(x) ==
    CASE x.kind = "xml" -> Return(x.root)
      [] x.kind = "xml_deep" -> Return(DeepElement)
      [] OTHER -> Raise(ParseError)

\* element.attrib stored without its entries.
AttribDictEmpty(attrib) == PyDict(EmptyMap)

\* element.attrib as the dict stored in the result (app.py:94).
AttribDict(attrib) == PyDict([k \in DOMAIN attrib |-> PyStr(attrib[k])])

\* One turn of the loop over the children with the isinstance test left out:
\* the stored value is wrapped again at every repetition.
AddChildNested(result, tag, child_data) ==
    IF tag \in DOMAIN result
    THEN MapSet(result, tag, PyList(<<result[tag], child_data>>))
    ELSE MapSet(result, tag, child_data)

\* One turn of the loop over the children (app.py:104-110).
AddChild(result, tag, child_data) ==
    IF tag \in DOMAIN result
    THEN LET items == IF result[tag].t # "list" THEN <<result[tag]>> ELSE result[tag].items
         IN  MapSet(result, tag, PyList(Append(items, child_data)))
    ELSE MapSet(result, tag, child_data)

\* The element's representation once its text is known to be non-blank and
\* it has no children (app.py:98-99).
TextLeaf(element, result) == PyStr(Strip(element.text))

RECURSIVE xml_to_dict(_), AddChildren(_, _, _)
\* The loop `for child in element` from the i-th child on (app.py:103-110).
AddChildren(result, children, i) ==
    IF i > Len(children) THEN result
    ELSE AddChildren(AddChild(result, children[i].tag, xml_to_dict(children[i])),
                     children, i + 1)

\* xml_to_dict(element) (app.py:89-112).
xml_to_dict(element) ==
    LET withAttrs == IF element.attrib # EmptyMap
                     THEN MapSet(EmptyMap, "@attributes", AttribDict(element.attrib))
                     ELSE EmptyMap
        hasText == element.text # <<>> /\ Strip(element.text) # <<>>
    IN  IF hasText /\ Len(element.children) = 0
        THEN TextLeaf(element, withAttrs)
        ELSE LET withText == IF hasText
                             THEN MapSet(withAttrs, "#text", PyStr(Strip(element.text)))
                             ELSE withAttrs
             IN  PyDict(AddChildren(withText, element.children, 1))

\* parse_xml_to_dict(xml_string) (app.py:84-117): only ET.ParseError is caught;
\* the recursion of xml_to_dict over a tree deeper than the recursion limit
\* raises RecursionError out of the function.
parse_xml_to_dict(x) ==
    LET parsed == ET_fromstring(x)
    IN  IF parsed.raised
        THEN Return(PyDict(MapSet(MapSet(EmptyMap, "error", PyStr("Invalid XML")),
                                  "raw_data", [t |-> "text", of |-> x])))
        ELSE IF parsed.value = DeepElement
        THEN Raise(RecursionError)
        ELSE Return(PyDict(MapSet(EmptyMap, parsed.value.tag, xml_to_dict(parsed.value))))

\* The state before any call of parse_xml_to_dict.
InitXmlIdle ==
    /\ xml_string = None
    /\ xml_result = None
    /\ xpc = "idle"

InitXml ==
    /\ xml_string \in XmlInputs(MaxNodes, MaxPlainNodes)
    /\ xml_result = None
    /\ xpc = "call"

\* A call of parse_xml_to_dict on the text xml_string.
ParseXml ==
    /\ xpc = "call"
    /\ xml_result' = parse_xml_to_dict(xml_string)
    /\ xpc' = "returned"
    /\ UNCHANGED xml_string

---------------------------------------------------------------------------
(* Requests.                                                               *)

\* A header that the request does not carry, and one it carries with value v.
Absent == [present |-> FALSE]

Hdr(v) == [present |-> TRUE, v |-> v]

BearerPrefix == <<"B", "e", "a", "r", "e", "r", " ">>

TokenPrefix == <<"T", "o", "k", "e", "n", " ">>

APPLICATION_JSON == <<"a", "p", "p", "l", "i", "c", "a", "t", "i", "o", "n", "/", "j", "s", "o", "n">>

APPLICATION_XML == <<"a", "p", "p", "l", "i", "c", "a", "t", "i", "o", "n", "/", "x", "m", "l">>

TEXT_XML == <<"t", "e", "x", "t", "/", "x", "m", "l">>

FORM_URLENCODED ==
    <<"a", "p", "p", "l", "i", "c", "a", "t", "i", "o", "n", "/", "x", "-", "w", "w", "w", "-", "f", "o", "r", "m", "-", "u", "r", "l", "e", "n", "c", "o", "d", "e", "d">>

MULTIPART_FORM_DATA == <<"m", "u", "l", "t", "i", "p", "a", "r", "t", "/", "f", "o", "r", "m", "-", "d", "a", "t", "a">>

UNKNOWN == <<"u", "n", "k", "n", "o", "w", "n">>

APPLICATION_SLASH == <<"a", "p", "p", "l", "i", "c", "a", "t", "i", "o", "n", "/">>

PLUS_JSON == <<"+", "j", "s", "o", "n">>

\* Content-Type header values sent by callers.
ContentTypes ==
    { Absent,
      Hdr(APPLICATION_JSON),
      Hdr(<<"A", "p", "p", "l", "i", "c", "a", "t", "i", "o", "n", "/", "J", "S", "O", "N", ";", " ", "c", "h", "a", "r", "s", "e", "t", "=", "u", "t", "f", "-", "8">>),
      Hdr(<<"t", "e", "x", "t", "/", "p", "l", "a", "i", "n", ";", " ", "x", "=", "a", "p", "p", "l", "i", "c", "a", "t", "i", "o", "n", "/", "j", "s", "o", "n">>),
      Hdr(APPLICATION_XML),
      Hdr(<<"T", "E", "X", "T", "/", "X", "M", "L">>),
      Hdr(FORM_URLENCODED),
      Hdr(<<"m", "u", "l", "t", "i", "p", "a", "r", "t", "/", "f", "o", "r", "m", "-", "d", "a", "t", "a", ";", " ", "b", "o", "u", "n", "d", "a", "r", "y", "=", "x">>),
      Hdr(<<"a", "p", "p", "l", "i", "c", "a", "t", "i", "o", "n", "/", "o", "c", "t", "e", "t", "-", "s", "t", "r", "e", "a", "m">>) }

\* Values of WEBHOOK_TOKEN: unset, and the token "ab".
Tokens == {<<>>, <<"a", "b">>}

\* Values of WEBHOOK_SECRET: unset, and the secret "k".
Secrets == {<<>>, <<"k">>}

\* Keys a sender may sign with: the secret "k" and another key "z".
SenderKeys == {<<"k">>, <<"z">>}

\* Authorization header values sent by callers.
AuthHeaders ==
    { Absent,
      Hdr(<<"a", "b">>),
      Hdr(BearerPrefix \o <<"a", "b">>),
      Hdr(TokenPrefix \o <<"a", "b">>),
      Hdr(<<"x">>),
      Hdr(BearerPrefix \o <<"x">>),
      Hdr(BearerPrefix \o TokenPrefix \o <<"a", "b">>),
      Hdr(<<"a">> \o BearerPrefix \o <<"b">>) }

\* JSON values.
JNull == [t |-> "None"]

JStr(s) == [t |-> "str", s |-> s]

JNum(n) == [t |-> "int", n |-> n]

JList(items) == [t |-> "list", items |-> items]

JDict(d) == [t |-> "dict", d |-> d]

\* A body that is the JSON text of value v.
JsonBody(v) == [kind |-> "json", value |-> v]

\* A body a=1&b=2.
FormBody == [kind |-> "form", fields |-> [k \in {"a", "b"} |-> IF k = "a" THEN "1" ELSE "2"]]

\* A multipart body with one field and one uploaded file.
MultipartBody ==
    [kind |-> "multipart", fields |-> [k \in {"a"} |-> "1"], files |-> <<"f.txt">>]

\* <a id="5"> t</a> and <a><b> t</b><b> t</b></a>.
XmlBodies ==
    { XmlDocument(Element([tag |-> "a", attrib |-> [k \in {"id"} |-> <<"5">>], text |-> <<" ", "t">>], <<>>)),
      XmlDocument(Element([tag |-> "a", attrib |-> EmptyMap, text |-> <<>>],
          << Element([tag |-> "b", attrib |-> EmptyMap, text |-> <<" ", "t">>], <<>>),
             Element([tag |-> "b", attrib |-> EmptyMap, text |-> <<" ", "t">>], <<>>) >>)) }

JsonDicts ==
    { EmptyMap,
      [k \in {"event_type"} |-> JStr("order")],
      [k \in {"event_type"} |-> JNum(5)],
      [k \in {"customer"} |-> JStr("bob")],
      [k \in {"customer"} |-> JDict([n \in {"name"} |-> JStr("Ann")])] }

JsonBodies == {JsonBody(JDict(d)) : d \in JsonDicts} \cup {JsonBody(JNull), JsonBody(JList(<<JNum(1)>>))}

OtherBodies ==
    {PlainText("not valid json"), EmptyBody, DeepXmlDocument, FormBody, MultipartBody}

\* Bodies sent to the generic receiver.
GenericBodies ==
    {JsonBody(JDict([k \in {"event_type"} |-> JStr("order")])), JsonBody(JNull)}
        \cup XmlBodies \cup OtherBodies

\* Bodies sent to the payment-platform receiver.
LastlinkBodies == JsonBodies \cup XmlBodies \cup OtherBodies

GenericEndpoints == {"/webhook", "/webhook/<custom_path>"}

LastlinkEndpoints ==
    {"/webhook/lastlink", "/webhook/lastlink/orders",
     "/webhook/lastlink/payments", "/webhook/lastlink/customers"}

\* hmac.new(key, payload, sha256).hexdigest(): one digest per (key, payload).
HexDigest(key, payload) == [a |-> "hexdigest", key |-> key, payload |-> payload]

Literal(s) == [a |-> "literal", s |-> s]

\* A character outside ASCII, as a latin-1 header byte decodes to.
NonAsciiChar == [a |-> "non-ascii"]

\* The signature a sender holding key computes over payload.
SignatureOf(key, payload) == <<Literal("sha256="), HexDigest(key, payload)>>

\* The <<X-Hub-Signature-256, X-Signature>> header pairs a caller may send
\* with body b: X-Signature varies where the code reads it (X-Hub-Signature-256
\* absent or empty), and once where the code ignores it.
SignatureHeaders(b) ==
    ({Absent, Hdr(<<>>)} \X {Absent, Hdr(<<>>), Hdr(SignatureOf(<<"k">>, b)), Hdr(SignatureOf(<<"z">>, b))})
        \cup ({Hdr(SignatureOf(k, b)) : k \in SenderKeys} \X {Absent})
        \cup { <<Hdr(<<Literal("sha256="), NonAsciiChar>>), Absent>>,
               <<Hdr(SignatureOf(<<"z">>, b)), Hdr(SignatureOf(<<"k">>, b))>> }

\* The requests to endpoint e that carry body b.
GenericRequestsWith(e, b) ==
    { [endpoint |-> e, authorization |-> a, content_type |-> c, body |-> b,
       x_hub_signature_256 |-> h[1], x_signature |-> h[2], x_event_type |-> Absent] :
        a \in AuthHeaders, c \in ContentTypes, h \in SignatureHeaders(b) }

\* The requests callers send to endpoint e.
RequestsTo(e) ==
    IF e \in GenericEndpoints
    THEN UNION {GenericRequestsWith(e, b) : b \in GenericBodies}
    ELSE { [endpoint |-> e, authorization |-> Absent, content_type |-> c, body |-> b,
            x_hub_signature_256 |-> Absent, x_signature |-> Absent, x_event_type |-> t] :
             c \in ContentTypes, b \in LastlinkBodies, t \in {Absent, Hdr("payment")} }


---------------------------------------------------------------------------
(* Library calls made by the handlers.                                     *)

\* request.headers.get(name, default).
HeaderGet(h, default) == IF h.present THEN h.v ELSE default

UpperAlphabet == <<"A", "B", "C", "D", "E", "F", "G", "H", "I", "J", "K", "L", "M", "N", "O", "P", "Q", "R", "S", "T", "U", "V", "W", "X", "Y", "Z">>

LowerAlphabet == <<"a", "b", "c", "d", "e", "f", "g", "h", "i", "j", "k", "l", "m", "n", "o", "p", "q", "r", "s", "t", "u", "v", "w", "x", "y", "z">>

LowerChar(c) ==
    IF \E i \in 1..26 : UpperAlphabet[i] = c
    THEN LowerAlphabet[CHOOSE i \in 1..26 : UpperAlphabet[i] = c]
    ELSE c

\* Python s.lower().
Lower(s) == [i \in 1..Len(s) |-> LowerChar(s[i])]

\* s up to its first ";" (all of s when it has none).
BeforeSemicolon(s) ==
    IF \E i \in 1..Len(s) : s[i] = ";"
    THEN SubSeq(s, 1, (CHOOSE i \in 1..Len(s) : s[i] = ";" /\ \A j \in 1..(i - 1) : s[j] # ";") - 1)
    ELSE s

\* request.mimetype: the content type without parameters, lower-cased
\* ("" when the header is absent).
Mimetype(content_type_header) ==
    Lower(Strip(BeforeSemicolon(HeaderGet(content_type_header, <<>>))))

StartsWith(s, p) == OccursAt(p, s, 1)

EndsWith(s, p) == Len(p) <= Len(s) /\ OccursAt(p, s, Len(s) - Len(p) + 1)

\* request.is_json.
is_json(r) ==
    LET mt == Mimetype(r.content_type)
    IN  mt = APPLICATION_JSON \/ (StartsWith(mt, APPLICATION_SLASH) /\ EndsWith(mt, PLUS_JSON))

BadRequest ==
    [type |-> "BadRequest", str |-> <<"400 Bad Request: Failed to decode JSON object">>]

UnsupportedMediaType ==
    [type |-> "UnsupportedMediaType",
     str |-> <<"415 Unsupported Media Type: Did not attempt to load JSON data">>]

TypeError ==
    [type |-> "TypeError", str |-> <<"comparing strings with non-ASCII characters is not supported">>]

AttributeError(typename, attr) ==
    [type |-> "AttributeError",
     str |-> <<"'", typename, "' object has no attribute '", attr, "'">>]

\* The Python type name of a value.
TypeName(v) ==
    CASE v.t = "None" -> "NoneType"
      [] v.t = "text" -> "str"
      [] OTHER -> v.t

\* request.get_json(): None or 415 on a non-JSON mimetype (by Flask version),
\* the parsed value of a JSON body, BadRequest on any other body.
get_json(r, strict) ==
    IF ~is_json(r)
    THEN IF strict THEN Raise(UnsupportedMediaType) ELSE Return(None)
    ELSE IF r.body.kind = "json" THEN Return(r.body.value) ELSE Raise(BadRequest)

\* request.get_data(as_text=True): the body's text.
get_data_as_text(r) == [t |-> "text", of |-> r.body]

\* request.form: parsed only under a form mimetype; a body that is not of
\* the announced form yields no field (multipart) or one field named by the
\* whole text (urlencoded).
request_form(r) ==
    LET mt == Mimetype(r.content_type)
    IN  CASE mt = FORM_URLENCODED ->
                 CASE r.body.kind = "form" -> [k \in DOMAIN r.body.fields |-> PyStr(r.body.fields[k])]
                   [] r.body.kind = "empty" -> EmptyMap
                   [] OTHER -> [k \in {"<body text>"} |-> PyStr("")]
          [] mt = MULTIPART_FORM_DATA ->
                 IF r.body.kind = "multipart"
                 THEN [k \in DOMAIN r.body.fields |-> PyStr(r.body.fields[k])]
                 ELSE EmptyMap
          [] OTHER -> EmptyMap

\* [f.filename for f in request.files.values()].
request_files(r) ==
    IF Mimetype(r.content_type) = MULTIPART_FORM_DATA /\ r.body.kind = "multipart"
    THEN [i \in 1..Len(r.body.files) |-> PyStr(r.body.files[i])]
    ELSE <<>>

\* d.get(k, default).
DictGet(d, k, default) == IF k \in DOMAIN d THEN d[k] ELSE default

\* datetime.now().isoformat().
Timestamp == "datetime.now().isoformat()"

---------------------------------------------------------------------------
(* src/app.py: the generic receiver.                                       *)

\* auth_header.replace('Bearer ', '').replace('Token ', '') (app.py:131).
provided_token(auth_header) == Replace(Replace(auth_header, BearerPrefix), TokenPrefix)

\* The token check rejects the request (app.py:129-135).
Unauthorized(r, token) ==
    /\ token # <<>>
    /\ provided_token(HeaderGet(r.authorization, <<>>)) # token

IsAscii(sig) == \A i \in 1..Len(sig) : sig[i] # NonAsciiChar

\* hmac.compare_digest(a, b) on two str.
compare_digest(a, b) ==
    IF ~IsAscii(a) \/ ~IsAscii(b) THEN Raise(TypeError) ELSE Return(a = b)

\* verify_signature(payload, signature, secret) (app.py:71-82); signature is
\* a header value or Absent for None.
verify_signature(payload, signature, secret) ==
    IF secret = <<>> \/ ~signature.present \/ signature.v = <<>>
    THEN Return(TRUE)
    ELSE compare_digest(SignatureOf(secret, payload), signature.v)

\* request.headers.get('X-Hub-Signature-256') or request.headers.get('X-Signature')
\* (app.py:144).
SelectedSignature(r) ==
    IF r.x_hub_signature_256.present /\ r.x_hub_signature_256.v # <<>>
    THEN r.x_hub_signature_256
    ELSE r.x_signature

\* request.content_type or 'unknown' (app.py:138).
ContentTypeOf(r) ==
    IF r.content_type.present /\ r.content_type.v # <<>> THEN r.content_type.v ELSE UNKNOWN

\* The branch of the if/elif chain on content_type (app.py:152-174).
DecoderBranchNormalized(content_type) ==
    LET ct == Lower(Strip(BeforeSemicolon(content_type)))
    IN  CASE Contains(ct, APPLICATION_JSON) -> "json"
          [] Contains(ct, APPLICATION_XML) \/ Contains(ct, TEXT_XML) -> "xml"
          [] Contains(ct, FORM_URLENCODED) -> "form"
          [] Contains(ct, MULTIPART_FORM_DATA) -> "multipart"
          [] OTHER -> "raw"

DecoderBranch(content_type) ==
    IF Contains(content_type, APPLICATION_JSON) THEN "json"
    ELSE IF Contains(content_type, APPLICATION_XML) \/ Contains(content_type, TEXT_XML) THEN "xml"
    ELSE IF Contains(content_type, FORM_URLENCODED) THEN "form"
    ELSE IF Contains(content_type, MULTIPART_FORM_DATA) THEN "multipart"
    ELSE "raw"

Dict2(k1, v1, k2, v2) == PyDict(MapSet(MapSet(EmptyMap, k1, v1), k2, v2))

\* The payload decoding of webhook_receiver (app.py:150-181): the decoded
\* request_data, or the exception that leaves the block.
DecodePayload(r, strict) ==
    LET b == DecoderBranch(ContentTypeOf(r))
    IN  CASE b = "json" ->
                 LET j == get_json(r, strict)
                 IN  IF j.raised
                     THEN Return(Dict2("error", PyStr("Invalid JSON"), "raw_body", get_data_as_text(r)))
                     ELSE IF j.value = None
                     THEN Return(PyDict(MapSet(EmptyMap, "raw_body", get_data_as_text(r))))
                     ELSE Return(j.value)
          [] b = "xml" -> parse_xml_to_dict(r.body)
          [] b = "form" -> Return(PyDict(request_form(r)))
          [] b = "multipart" ->
                 Return(Dict2("form_data", PyDict(request_form(r)), "files", PyList(request_files(r))))
          [] OTHER ->
                 Return(PyDict(MapSet(MapSet(MapSet(EmptyMap,
                     "content_type", PyStr(ContentTypeOf(r))),
                     "raw_data", get_data_as_text(r)),
                     "size", [t |-> "len", of |-> r.body])))

\* The response bodies of webhook_receiver.

UnauthorizedBody == [error |-> "Unauthorized"]

InvalidSignatureBody == [error |-> "Invalid signature"]

SuccessBody(r) ==
    [status |-> "success", message |-> <<"Webhook received successfully">>,
     timestamp |-> Timestamp, data_received |-> TRUE, content_type |-> ContentTypeOf(r)]

InternalErrorBodyNoTimestamp == [status |-> "error", message |-> <<"Internal server error">>]

InternalErrorBody ==
    [status |-> "error", message |-> <<"Internal server error">>, timestamp |-> Timestamp]

Response(code, body) == [code |-> code, body |-> body]

\* The state between two requests.
NoRequest ==
    /\ pc = "idle"
    /\ req = None
    /\ events = <<>>
    /\ verified = None
    /\ branch = "none"
    /\ request_data = None
    /\ logged = None
    /\ exc = None
    /\ resp = None

\* Flask calls webhook_receiver for the request r.
Enter(r) ==
    /\ pc = "idle"
    /\ req' = r
    /\ pc' = "token"
    /\ UNCHANGED <<WEBHOOK_TOKEN, WEBHOOK_SECRET, json_strict, events, verified, branch,
                   request_data, logged, exc, resp, xmlVars>>

\* POST /webhook (app.py:124-126).
webhook_receiver ==
    pc = "idle" /\ \E r \in RequestsTo("/webhook") : Enter(r)

\* POST /webhook/<custom_path>, which returns webhook_receiver() (app.py:206-210).
custom_webhook_receiver ==
    pc = "idle" /\ \E r \in RequestsTo("/webhook/<custom_path>") : Enter(r)

\* The except clause of webhook_receiver (app.py:198-204).
CatchInternalError(e) ==
    /\ exc' = e
    /\ resp' = Response(500, InternalErrorBody)
    /\ pc' = "done"

\* The token check (app.py:129-135).
TokenCheck ==
    /\ pc = "token"
    /\ IF Unauthorized(req, WEBHOOK_TOKEN)
       THEN /\ resp' = Response(401, UnauthorizedBody)
            /\ pc' = "done"
            /\ events' = events \o <<"token_check", "response">>
       ELSE /\ resp' = resp
            /\ pc' = "signature"
            /\ events' = Append(events, "token_check")
    /\ UNCHANGED <<WEBHOOK_TOKEN, WEBHOOK_SECRET, json_strict, req, verified, branch,
                   request_data, logged, exc, xmlVars>>

\* The signature check with its rejection left out: an invalid signature is
\* noted and the request goes on to be decoded.
SignatureCheckContinues ==
    /\ pc = "signature"
    /\ verified' = IF WEBHOOK_SECRET # <<>>
                   THEN verify_signature(req.body, SelectedSignature(req), WEBHOOK_SECRET)
                   ELSE None
    /\ IF verified' # None /\ verified'.raised
       THEN /\ CatchInternalError(verified'.exception)
            /\ events' = events \o <<"signature_check", "response">>
       ELSE /\ pc' = "decode"
            /\ events' = Append(events, "signature_check")
            /\ UNCHANGED <<exc, resp>>
    /\ UNCHANGED <<WEBHOOK_TOKEN, WEBHOOK_SECRET, json_strict, req, branch,
                   request_data, logged, xmlVars>>

\* The signature check (app.py:143-147).
SignatureCheck ==
    /\ pc = "signature"
    /\ verified' = IF WEBHOOK_SECRET # <<>>
                   THEN verify_signature(req.body, SelectedSignature(req), WEBHOOK_SECRET)
                   ELSE None
    /\ IF verified' # None /\ verified'.raised
       THEN /\ CatchInternalError(verified'.exception)
            /\ events' = events \o <<"signature_check", "response">>
       ELSE IF verified' # None /\ ~verified'.value
       THEN /\ resp' = Response(403, InvalidSignatureBody)
            /\ pc' = "done"
            /\ events' = events \o <<"signature_check", "response">>
            /\ exc' = exc
       ELSE /\ pc' = "decode"
            /\ events' = Append(events, "signature_check")
            /\ UNCHANGED <<exc, resp>>
    /\ UNCHANGED <<WEBHOOK_TOKEN, WEBHOOK_SECRET, json_strict, req, branch,
                   request_data, logged, xmlVars>>

\* The processing by content type (app.py:150-181).
Decode ==
    /\ pc = "decode"
    /\ branch' = DecoderBranch(ContentTypeOf(req))
    /\ LET out == DecodePayload(req, json_strict)
       IN  IF out.raised
           THEN /\ CatchInternalError(out.exception)
                /\ events' = events \o <<"decode", "response">>
                /\ request_data' = request_data
           ELSE /\ request_data' = out.value
                /\ pc' = "log"
                /\ events' = Append(events, "decode")
                /\ UNCHANGED <<exc, resp>>
    /\ UNCHANGED <<WEBHOOK_TOKEN, WEBHOOK_SECRET, json_strict, req, verified, logged, xmlVars>>

\* The call log_request_details(request_data, content_type, headers, source_ip)
\* (app.py:184, app.py:39-69).
log_request_details ==
    /\ pc = "log"
    /\ logged' = [request_data |-> request_data, content_type |-> ContentTypeOf(req),
                  authorization |-> req.authorization]
    /\ pc' = "respond"
    /\ events' = Append(events, "log_request_details")
    /\ UNCHANGED <<WEBHOOK_TOKEN, WEBHOOK_SECRET, json_strict, req, verified, branch,
                   request_data, exc, resp, xmlVars>>

\* The success response (app.py:187-196).
RespondSuccess ==
    /\ pc = "respond"
    /\ resp' = Response(200, SuccessBody(req))
    /\ pc' = "done"
    /\ events' = Append(events, "response")
    /\ UNCHANGED <<WEBHOOK_TOKEN, WEBHOOK_SECRET, json_strict, req, verified, branch,
                   request_data, logged, exc, xmlVars>>

\* The response has been sent; the worker takes the next request.
Finish ==
    /\ pc = "done"
    /\ pc' = "idle"
    /\ req' = None
    /\ events' = <<>>
    /\ verified' = None
    /\ branch' = "none"
    /\ request_data' = None
    /\ logged' = None
    /\ exc' = None
    /\ resp' = None
    /\ UNCHANGED <<WEBHOOK_TOKEN, WEBHOOK_SECRET, json_strict, xmlVars>>

---------------------------------------------------------------------------
(* src/webhook_lastlink.py: the payment-platform receiver.                 *)

\* What a handler did with a request: its response, the exception its except
\* clause caught, the data it decoded and what it printed.
Outcome(code, body, e, data, printed) ==
    [resp |-> Response(code, body), exc |-> e, data |-> data, printed |-> printed]

\* print_received_data(data, event_type) (webhook_lastlink.py:15-45):
\* event_type.upper() raises unless event_type is a str.
print_received_data(data, event_type) ==
    IF event_type.t # "str"
    THEN Raise(AttributeError(TypeName(event_type), "upper"))
    ELSE Return([data |-> data, event_type |-> event_type])

\* The error response of lastlink_webhook (webhook_lastlink.py:94-103).
LastlinkErrorBody(e) ==
    [status |-> "error", message |-> <<"Erro ao processar webhook: ">> \o e.str,
     timestamp |-> Timestamp]

\* The success response of lastlink_webhook (webhook_lastlink.py:87-92).
LastlinkSuccessBody(event_type) ==
    [status |-> "success", message |-> <<"Webhook recebido com sucesso">>,
     timestamp |-> Timestamp, event_type |-> event_type]

\* The data lastlink_webhook reads from the request (webhook_lastlink.py:54-61).
LastlinkData(r, strict) ==
    IF r.content_type.present /\ Contains(r.content_type.v, APPLICATION_JSON)
    THEN get_json(r, strict)
    ELSE IF request_form(r) # EmptyMap
    THEN Return(PyDict(request_form(r)))
    ELSE Return(get_data_as_text(r))

\* The event type lastlink_webhook finds (webhook_lastlink.py:76-78).
LastlinkEventType(r, data) ==
    LET fromHeader == PyStr(HeaderGet(r.x_event_type, "unknown"))
    IN  IF data.t = "dict"
        THEN DictGet(data.d, "event_type", DictGet(data.d, "type", fromHeader))
        ELSE fromHeader

\* lastlink_webhook() on request r (webhook_lastlink.py:47-103).
lastlink_webhook(r, strict) ==
    LET got == LastlinkData(r, strict)
    IN  IF got.raised
        THEN Outcome(400, LastlinkErrorBody(got.exception), got.exception, None, None)
        ELSE LET event_type == LastlinkEventType(r, got.value)
                 printed == print_received_data(got.value, event_type)
             IN  IF printed.raised
                 THEN Outcome(400, LastlinkErrorBody(printed.exception), printed.exception,
                              got.value, None)
                 ELSE Outcome(200, LastlinkSuccessBody(event_type), None, got.value,
                              printed.value)

\* The error response of the three sub-path handlers (webhook_lastlink.py:131).
SubpathErrorBody(e) == [status |-> "error", message |-> e.str]

\* The success response of the three sub-path handlers (webhook_lastlink.py:127).
SubpathSuccessBody(message) == [status |-> "success", message |-> <<message>>]

\* A sub-path handler (webhook_lastlink.py:110-131, 138-160, 167-189):
\* get_json, print_received_data, the summary of a non-empty dict, the
\* success response; nested names the key whose value the summary calls
\* .get on ("" when there is none).
SubpathHandler(r, strict, event_type, nested, message) ==
    LET got == get_json(r, strict)
    IN  IF got.raised
        THEN Outcome(400, SubpathErrorBody(got.exception), got.exception, None, None)
        ELSE LET data == got.value
                 printed == print_received_data(data, PyStr(event_type)).value
                 inner == IF data.t = "dict" /\ data.d # EmptyMap
                          THEN DictGet(data.d, nested, PyDict(EmptyMap))
                          ELSE PyDict(EmptyMap)
             IN  IF nested # "" /\ inner.t # "dict"
                 THEN Outcome(400, SubpathErrorBody(AttributeError(TypeName(inner), "get")),
                              AttributeError(TypeName(inner), "get"), data, printed)
                 ELSE Outcome(200, SubpathSuccessBody(message), None, data, printed)

\* lastlink_orders_webhook() (webhook_lastlink.py:105-131).
lastlink_orders_webhook(r, strict) ==
    SubpathHandler(r, strict, "order", "customer", "Webhook de pedido processado")

\* lastlink_payments_webhook() (webhook_lastlink.py:133-160).
lastlink_payments_webhook(r, strict) ==
    SubpathHandler(r, strict, "payment", "", "Webhook de pagamento processado")

\* lastlink_customers_webhook() (webhook_lastlink.py:162-189).
lastlink_customers_webhook(r, strict) ==
    SubpathHandler(r, strict, "customer", "", "Webhook de cliente processado")

\* The handler Flask routes r to.
LastlinkHandler(r, strict) ==
    CASE r.endpoint = "/webhook/lastlink" -> lastlink_webhook(r, strict)
      [] r.endpoint = "/webhook/lastlink/orders" -> lastlink_orders_webhook(r, strict)
      [] r.endpoint = "/webhook/lastlink/payments" -> lastlink_payments_webhook(r, strict)
      [] r.endpoint = "/webhook/lastlink/customers" -> lastlink_customers_webhook(r, strict)

\* A payment-platform handler runs on request r, from the call to the response.
Handle(r) ==
    /\ pc = "idle"
    /\ req' = r
    /\ LET o == LastlinkHandler(r, json_strict)
       IN  /\ resp' = o.resp
           /\ exc' = o.exc
           /\ request_data' = o.data
           /\ logged' = o.printed
    /\ pc' = "done"
    /\ UNCHANGED <<WEBHOOK_TOKEN, WEBHOOK_SECRET, json_strict, events, verified, branch, xmlVars>>

LastlinkWebhook ==
    pc = "idle" /\ \E r \in RequestsTo("/webhook/lastlink") : Handle(r)

LastlinkOrdersWebhook ==
    pc = "idle" /\ \E r \in RequestsTo("/webhook/lastlink/orders") : Handle(r)

LastlinkPaymentsWebhook ==
    pc = "idle" /\ \E r \in RequestsTo("/webhook/lastlink/payments") : Handle(r)

LastlinkCustomersWebhook ==
    pc = "idle" /\ \E r \in RequestsTo("/webhook/lastlink/customers") : Handle(r)

---------------------------------------------------------------------------
(* Specifications.                                                         *)

\* The servers after start-up: the configuration is read, no request yet.
Init ==
    /\ WEBHOOK_TOKEN \in Tokens
    /\ WEBHOOK_SECRET \in Secrets
    /\ json_strict \in BOOLEAN
    /\ NoRequest
    /\ InitXmlIdle

Next ==
    \/ webhook_receiver
    \/ custom_webhook_receiver
    \/ TokenCheck
    \/ SignatureCheck
    \/ Decode
    \/ log_request_details
    \/ RespondSuccess
    \/ LastlinkWebhook
    \/ LastlinkOrdersWebhook
    \/ LastlinkPaymentsWebhook
    \/ LastlinkCustomersWebhook
    \/ Finish

Spec == Init /\ [][Next]_vars

\* parse_xml_to_dict alone, on every document of XmlInputs.
InitParse ==
    /\ WEBHOOK_TOKEN = <<>>
    /\ WEBHOOK_SECRET = <<>>
    /\ json_strict = FALSE
    /\ NoRequest
    /\ InitXml

NextParse == ParseXml /\ UNCHANGED reqVars

SpecXml == InitParse /\ [][NextParse]_vars

---------------------------------------------------------------------------
(* Claims.                                                                 *)

GenericRequest == pc # "idle" /\ req.endpoint \in GenericEndpoints

LastlinkRequest == pc # "idle" /\ req.endpoint \in LastlinkEndpoints

Happened(step) == \E i \in 1..Len(events) : events[i] = step

HasStatus(body) == "status" \in DOMAIN body /\ body["status"] \in {"success", "error"}

\* C1: with a non-empty secret, verify_signature returns false for every
\* signature string other than "sha256=" + hex(HMAC-SHA256(secret, body)),
\* and POST /webhook answers 403 to every request that carries such a value.
C1_WrongSignatureRejected ==
    (/\ GenericRequest
     /\ Happened("signature_check")
     /\ WEBHOOK_SECRET # <<>>
     /\ ~Unauthorized(req, WEBHOOK_TOKEN)
     /\ SelectedSignature(req).present
     /\ SelectedSignature(req).v # SignatureOf(WEBHOOK_SECRET, req.body))
        => (verified = Return(FALSE) /\ resp # None /\ resp.code = 403)

\* C2 as stated: every response of a webhook endpoint, in every outcome, has
\* a status field equal to "success" or "error" and a timestamp field.
C2_EveryResponseHasStatusAndTimestamp ==
    resp # None => (HasStatus(resp.body) /\ "timestamp" \in DOMAIN resp.body)

TimestampedEndpoints == GenericEndpoints \cup {"/webhook/lastlink"}

\* C2 as amended: the 200, 400 and 500 responses have a status field, equal
\* to "success" exactly on 200 and to "error" otherwise, and have a timestamp
\* field exactly on /webhook, /webhook/<custom_path> and /webhook/lastlink;
\* the 401 and 403 responses hold an error field and nothing else.
C2_ResponseShape ==
    resp # None =>
        IF resp.code \in {401, 403}
        THEN DOMAIN resp.body = {"error"} /\ req.endpoint \in GenericEndpoints
        ELSE /\ resp.code \in {200, 400, 500}
             /\ (resp.code = 500) => (req.endpoint \in GenericEndpoints)
             /\ (resp.code = 400) => (req.endpoint \in LastlinkEndpoints)
             /\ HasStatus(resp.body)
             /\ (resp.body["status"] = "success") <=> (resp.code = 200)
             /\ ("timestamp" \in DOMAIN resp.body) <=> (req.endpoint \in TimestampedEndpoints)

\* A 500 response of the generic receiver, which has status and timestamp,
\* after a 403-capable configuration.
C2_Witness ==
    /\ resp # None
    /\ resp.code = 500
    /\ "timestamp" \in DOMAIN resp.body
    /\ WEBHOOK_SECRET # <<>>

StepOrder == <<"token_check", "signature_check", "decode", "log_request_details", "response">>

IsPrefix(s, t) == Len(s) <= Len(t) /\ \A i \in 1..Len(s) : s[i] = t[i]

\* The signature check of webhook_receiver finds the signature of r invalid.
InvalidSignature(r) ==
    /\ WEBHOOK_SECRET # <<>>
    /\ verify_signature(r.body, SelectedSignature(r), WEBHOOK_SECRET) = Return(FALSE)

\* C3: on the generic receiver the steps run in the order token check,
\* signature check, payload decode, log_request_details, 200 response; a
\* request that fails the token check gets 401 whatever else it carries, one
\* that passes it and fails the signature check gets 403, and in both cases
\* the body is never decoded and log_request_details is never called.
C3_RejectionsAreTerminal ==
    GenericRequest =>
        /\ Unauthorized(req, WEBHOOK_TOKEN) =>
              /\ request_data = None /\ logged = None /\ branch = "none"
              /\ ~Happened("signature_check")
              /\ pc = "done" => (resp.code = 401 /\ events = <<"token_check", "response">>)
        /\ (~Unauthorized(req, WEBHOOK_TOKEN) /\ InvalidSignature(req)) =>
              /\ request_data = None /\ logged = None /\ branch = "none"
              /\ pc = "done" =>
                    (resp.code = 403 /\ events = <<"token_check", "signature_check", "response">>)
        /\ (resp # None /\ resp.code = 200) => events = StepOrder
        /\ pc # "done" => (resp = None /\ IsPrefix(events, StepOrder))
        /\ logged # None => (request_data # None /\ logged.request_data = request_data)

\* A request with the right token and a wrong signature, answered 403.
C3_Witness ==
    /\ GenericRequest
    /\ pc = "done"
    /\ WEBHOOK_TOKEN # <<>>
    /\ ~Unauthorized(req, WEBHOOK_TOKEN)
    /\ InvalidSignature(req)
    /\ resp.code = 403
    /\ req.body.kind = "json"

\* C4: on the generic receiver every request that passes the token and
\* signature checks is answered 200 with status "success", whatever its
\* content type and body.
C4_PassedChecksAnswered200 ==
    (GenericRequest /\ pc = "done" /\ Happened("signature_check") /\ resp.code \notin {401, 403}
        /\ (verified = None \/ ~verified.raised))
        => (resp.code = 200 /\ HasStatus(resp.body) /\ resp.body["status"] = "success")

\* C5: on the payment-platform endpoints a request with Content-Type
\* application/json and a malformed JSON body is answered 200 with status
\* "success".
C5_MalformedJsonAcknowledged ==
    (LastlinkRequest /\ pc = "done" /\ req.content_type = Hdr(APPLICATION_JSON)
        /\ req.body = PlainText("not valid json"))
        => (resp.code = 200 /\ resp.body["status"] = "success")

\* The header is the token, or the token after one scheme prefix.
ExactToken(h, token) ==
    /\ h.present
    /\ h.v \in {token, BearerPrefix \o token, TokenPrefix \o token}

\* C6: with WEBHOOK_TOKEN set, POST /webhook lets a request past the token
\* check if and only if its Authorization header is the token, optionally
\* after one prefix "Bearer " or "Token "; with WEBHOOK_TOKEN empty no
\* request is answered 401.
C6_TokenCheckExact ==
    (GenericRequest /\ pc = "done") =>
        IF WEBHOOK_TOKEN # <<>>
        THEN (resp.code = 401) <=> ~ExactToken(req.authorization, WEBHOOK_TOKEN)
        ELSE resp.code # 401

\* The exception webhook_receiver catches on request r (None when it
\* catches none).
GenericException(r) ==
    IF Unauthorized(r, WEBHOOK_TOKEN) THEN None
    ELSE LET v == IF WEBHOOK_SECRET # <<>>
                  THEN verify_signature(r.body, SelectedSignature(r), WEBHOOK_SECRET)
                  ELSE Return(TRUE)
         IN  IF v.raised THEN v.exception
             ELSE IF ~v.value THEN None
             ELSE LET d == DecodePayload(r, json_strict)
                  IN  IF d.raised THEN d.exception ELSE None

\* C7: an exception raised while a webhook endpoint processes a request is
\* answered with status "error", 500 on the generic endpoints and 400 on the
\* payment-platform ones, and with the same body whatever the exception.
C7_GenericErrorResponse ==
    (pc = "done" /\ exc # None) =>
        /\ resp.code = IF req.endpoint \in GenericEndpoints THEN 500 ELSE 400
        /\ resp.body["status"] = "error"
        /\ \A r2 \in RequestsTo(req.endpoint) :
              IF req.endpoint \in GenericEndpoints
              THEN GenericException(r2) # None => resp.body = InternalErrorBody
              ELSE LET o == LastlinkHandler(r2, json_strict)
                   IN  o.exc # None => o.resp.body = resp.body

\* C8: the decoder branch is the one its lower-cased, parameter-stripped
\* content type selects, with precedence JSON, XML, form, multipart, raw.
C8_BranchByNormalizedType ==
    (GenericRequest /\ branch # "none") =>
        branch = DecoderBranchNormalized(ContentTypeOf(req))

Missing == [t |-> "missing"]

\* Where the representation rep of element e holds its i-th child: under the
\* child's tag, at the child's rank among its same-tag siblings when there
\* are several.
ChildRep(e, rep, i) ==
    LET tag == e.children[i].tag
        same == {j \in 1..Len(e.children) : e.children[j].tag = tag}
        rank == Cardinality({j \in same : j <= i})
    IN  IF rep.t # "dict" THEN Missing
        ELSE IF tag \notin DOMAIN rep.d THEN Missing
        ELSE IF Cardinality(same) = 1 THEN rep.d[tag]
        ELSE IF rep.d[tag].t = "list" /\ rank <= Len(rep.d[tag].items)
        THEN rep.d[tag].items[rank]
        ELSE Missing

RECURSIVE Located(_, _)
\* The pairs <<element, its place in the output>> for e and its descendants.
Located(e, rep) ==
    {<<e, rep>>} \cup UNION {Located(e.children[i], ChildRep(e, rep, i)) : i \in 1..Len(e.children)}

\* parse_xml_to_dict returned the conversion of a well-formed document.
Converted == xpc = "returned" /\ xml_string.kind = "xml" /\ ~xml_result.raised

\* The elements of the converted document, each with its place in the output.
OutputPairs ==
    LET root == xml_string.root
        out == xml_result.value
    IN  IF out.t = "dict" /\ DOMAIN out.d = {root.tag}
        THEN Located(root, out.d[root.tag])
        ELSE {<<root, Missing>>}

HoldsAttributes(e, rep) ==
    /\ rep.t = "dict"
    /\ "@attributes" \in DOMAIN rep.d
    /\ rep.d["@attributes"] = PyDict([k \in DOMAIN e.attrib |-> PyStr(e.attrib[k])])

TextOnlyLeaf(e) == Strip(e.text) # <<>> /\ Len(e.children) = 0

\* C9 as stated: every element with an attribute is represented as a mapping
\* whose "@attributes" key holds exactly its attributes, whatever its text
\* and children.
C9_AttributesAlwaysKept ==
    Converted =>
        \A p \in OutputPairs : p[1].attrib # EmptyMap => HoldsAttributes(p[1], p[2])

\* C9 as amended: every element with an attribute that has a child or no
\* non-blank text is represented as a mapping whose "@attributes" key holds
\* exactly its attributes; one with non-blank text and no child is
\* represented by its trimmed text alone.
C9_AttributesKeptUnlessTextLeaf ==
    Converted =>
        \A p \in OutputPairs :
            p[1].attrib # EmptyMap =>
                IF TextOnlyLeaf(p[1])
                THEN p[2] = PyStr(Strip(p[1].text))
                ELSE HoldsAttributes(p[1], p[2])

\* A converted document whose root has an attribute, blank text and a child,
\* the child being an attribute-bearing leaf with text.
C9_Witness ==
    /\ Converted
    /\ xml_string.root.attrib # EmptyMap
    /\ xml_string.root.text = <<" ">>
    /\ \E p \in OutputPairs : p[1] = xml_string.root /\ HoldsAttributes(p[1], p[2])
    /\ \E p \in OutputPairs :
          /\ p[1] # xml_string.root
          /\ p[1].attrib # EmptyMap
          /\ TextOnlyLeaf(p[1])
          /\ p[2].t = "str"

\* The children of e with the given tag, in document order.
RECURSIVE ChildrenWithTag(_, _)
ChildrenWithTag(children, tag) ==
    IF children = <<>> THEN <<>>
    ELSE (IF Head(children).tag = tag THEN <<Head(children)>> ELSE <<>>)
             \o ChildrenWithTag(Tail(children), tag)

\* C10: for each tag occurring n times among an element's children, the tag
\* maps to the child's representation when n = 1 and to one flat sequence of
\* the n representations in document order when n >= 2.
C10_RepeatedTagsPromoted ==
    Converted =>
        \A p \in OutputPairs :
            ~TextOnlyLeaf(p[1]) =>
                /\ p[2].t = "dict"
                /\ DOMAIN p[2].d \ {"@attributes", "#text"}
                       = {p[1].children[i].tag : i \in 1..Len(p[1].children)}
                /\ \A tag \in DOMAIN p[2].d \ {"@attributes", "#text"} :
                      LET cs == ChildrenWithTag(p[1].children, tag)
                          v == p[2].d[tag]
                      IN  IF Len(cs) = 1
                          THEN v = xml_to_dict(cs[1]) /\ v.t # "list"
                          ELSE /\ v.t = "list"
                               /\ Len(v.items) = Len(cs)
                               /\ \A k \in 1..Len(cs) :
                                     v.items[k] = xml_to_dict(cs[k]) /\ v.items[k].t # "list"

\* A converted document in which a tag occurs three times under one element,
\* with differing representations.
C10_Witness ==
    /\ Converted
    /\ \E p \in OutputPairs :
          /\ Len(ChildrenWithTag(p[1].children, "b")) = 3
          /\ p[2].t = "dict"
          /\ p[2].d["b"].t = "list"
          /\ Len(p[2].d["b"].items) = 3
          /\ p[2].d["b"].items[1] # p[2].d["b"].items[3]

====
